---- MODULE Spec2Model ----
(***************************************************************************)
(* Model of train.py: the Trainer of an SMPL regression network.           *)
(*                                                                         *)
(* Tensors are sequences (batch first); tensor elements are integers and   *)
(* every reduced value (a loss, a mean) is an exact rational [n, d], with  *)
(* NaN = [n |-> 0, d |-> 0] for the mean of an empty tensor.               *)
(***************************************************************************)
EXTENDS Integers, Sequences, FiniteSets, TLC

VARIABLES
    options,        \* self.options: batch_size, use_wpp
    test_ds,        \* self.test_ds: the samples of the test set, in order
    mode,           \* self.model.training: "train" or "eval"
    weights,        \* the parameters of self.model
    grad,           \* the .grad buffers of the parameters
    opt_step,       \* the step count in the state of self.optimizer
    buffers,        \* the running statistics of self.model (moved by training-mode passes)
    eval_result,    \* the file at self.eval_result_path: its lines
    submission,     \* the file at self.submission_path: <<>> or <<its content>>
    pc,             \* "idle", or "eval" while Trainer.eval is inside its loop
    ev,             \* the locals of the running Trainer.eval
    last,           \* the last call that returned: its name, arguments and results
    lossIn,         \* arguments handed to one of the loss functions
    lossOut         \* <<what that call returned>>, empty before the call

trainer == <<options, test_ds, mode, weights, grad, opt_step, buffers,
             eval_result, submission, pc, ev, last>>

vars == <<options, test_ds, mode, weights, grad, opt_step, buffers,
          eval_result, submission, pc, ev, last, lossIn, lossOut>>

(***************************************************************************)
(* Bounds of the model.                                                    *)
(***************************************************************************)
\* keypoints after the 25 OpenPose ones (24 in the data set)
NumGtKp == 4
\* vertex coordinates of a mesh (6890 * 3 in the body model)
NumVertCoords == 2
\* joints of the body model (24 in the source: view(-1, 24, 3, 3), view(-1, 72))
NumSmplJoints == 2
\* shape coefficients (10 in the body model)
NumBetas == 1
\* largest batch size option
MaxBatch == 2
\* largest test set
MaxTestLen == 3
\* train_step calls explored
MaxTrainSteps == 2
\* eval calls explored
MaxEvals == 2
\* batch size of the loss-function cases
LossBatch == 2

(***************************************************************************)
(* Program constants.                                                      *)
(***************************************************************************)
\* conf[:, :25] / conf[:, 25:] and pred_keypoints_3d[:, 25:, :]
NumOpenpose == 25
\* the factor of `loss *= 60`
LossScale == 60

(***************************************************************************)
(* Exact arithmetic on reduced values.                                     *)
(***************************************************************************)
Abs(x) == IF x < 0 THEN -x ELSE x

RECURSIVE GCD(_, _)
GCD(a, b) == IF b = 0 THEN a ELSE GCD(b, a % b)

NaN == [n |-> 0, d |-> 0]

IsNaN(x) == x.d = 0

Rat(n, d) ==
    IF d = 0 THEN NaN
    ELSE LET g == GCD(Abs(n), Abs(d))
             s == IF d < 0 THEN -1 ELSE 1
         IN  [n |-> s * (n \div g), d |-> s * (d \div g)]

RAdd(x, y) == IF IsNaN(x) \/ IsNaN(y) THEN NaN ELSE Rat(x.n * y.d + y.n * x.d, x.d * y.d)

RScale(k, x) == IF IsNaN(x) THEN NaN ELSE Rat(k * x.n, x.d)

RECURSIVE SumTo(_, _)
SumTo(s, n) == IF n = 0 THEN 0 ELSE s[n] + SumTo(s, n - 1)

\* sum of the elements of a sequence
Sum(s) == SumTo(s, Len(s))

Sq(x) == x * x

\* a sequence written as a function, laid out as a tuple once and for all
Vec(f) == f \o <<>>

\* tensor.mean() of `count` elements that add up to total / den
Mean(total, count, den) == Rat(total, count * den)

\* torch.FloatTensor(1).fill_(0.)
ZeroLoss == Rat(0, 1)

\* a mask that selects every example
MaskedAll(flags) == Vec([b \in 1..Len(flags) |-> b])

\* x[mask == 1]: the positions of a batch whose flag compares equal to 1, in order
Masked(flags) == SelectSeq(Vec([b \in 1..Len(flags) |-> b]), LAMBDA b : flags[b] = 1)

(***************************************************************************)
(* keypoint_loss.  gt_keypoints_2d[b][k] = <<x, y, conf>>,                 *)
(* pred_keypoints_2d[b][k] = <<x, y>>.  The call works on a small memory:  *)
(* buffer gt is the caller's tensor, buffer conf the storage a clone()     *)
(* allocates.  A reference names a buffer; col = TRUE means "the last      *)
(* column of buffer gt" (the view gt[:, :, -1].unsqueeze(-1)).             *)
(***************************************************************************)
ConfView == [buf |-> "gt", col |-> TRUE]

ReadConf(mem, ref) ==
    Vec([b \in 1..Len(mem.gt) |->
        Vec([k \in 1..Len(mem.gt[b]) |->
            IF ref.col THEN mem.gt[b][k][3] ELSE mem.conf[b][k]])])

\* a clone that forgets to copy: the result still aliases the caller's tensor
CloneConfAlias(mem, ref) == [mem |-> mem, ref |-> ref]

\* .clone(): new storage holding a copy of what ref shows
CloneConf(mem, ref) ==
    [mem |-> [mem EXCEPT !.conf = ReadConf(mem, ref)],
     ref |-> [buf |-> "conf", col |-> FALSE]]

\* t[:, lo-1:hi] *= w, in place, on the storage ref names (1-based, inclusive)
MulSlice(mem, ref, lo, hi, w) ==
    IF ref.col
    THEN [mem EXCEPT !.gt =
            Vec([b \in 1..Len(mem.gt) |->
                Vec([k \in 1..Len(mem.gt[b]) |->
                    IF lo <= k /\ k <= hi
                    THEN <<mem.gt[b][k][1], mem.gt[b][k][2], mem.gt[b][k][3] * w>>
                    ELSE mem.gt[b][k]])])]
    ELSE [mem EXCEPT !.conf =
            Vec([b \in 1..Len(mem.conf) |->
                Vec([k \in 1..Len(mem.conf[b]) |->
                    IF lo <= k /\ k <= hi THEN mem.conf[b][k] * w ELSE mem.conf[b][k]])])]

\* returns the loss and the caller's gt tensor as the call leaves it
KeypointLoss(pred, gt, openpose_weight, gt_weight) ==
    LET B    == Len(gt)
        K    == Len(gt[1])
        c    == CloneConf([gt |-> gt, conf |-> <<>>], ConfView)
        m1   == MulSlice(c.mem, c.ref, 1, NumOpenpose, openpose_weight)
        m2   == MulSlice(m1, c.ref, NumOpenpose + 1, K, gt_weight)
        conf == ReadConf(m2, c.ref)
        \* conf * criterion_keypoints(pred, gt[:, :, :-1]), summed per example
        sq   == [b \in 1..B |->
                    Sum([k \in 1..K |->
                        conf[b][k] * (Sq(pred[b][k][1] - m2.gt[b][k][1]) +
                                      Sq(pred[b][k][2] - m2.gt[b][k][2]))])]
    IN  [loss |-> Mean(Sum(sq), B * K * 2, 1), gt |-> m2.gt]

(***************************************************************************)
(* keypoint_3d_loss.  pred[b][k] = <<x, y, z>> for 25 + J joints,          *)
(* gt[b][j] = <<x, y, z, conf>> for J joints.  The pelvis is the midpoint  *)
(* of joints 2 and 3 (0-based); centred values are kept as numerators      *)
(* over 2, so a squared difference is a numerator over 4.                  *)
(***************************************************************************)
\* the guard `if len(gt_keypoints_3d) > 0` left out
HasValidNoGuard(sel) == TRUE

\* `if len(x) > 0` on a masked tensor
HasValid(sel) == Len(sel) > 0

Keypoint3dLoss(pred_all, gt, has_pose_3d) ==
    LET sel  == Masked(has_pose_3d)
        n    == Len(sel)
        J    == Len(gt[1])
        pred == Vec([b \in 1..Len(pred_all) |->
                    SubSeq(pred_all[b], NumOpenpose + 1, Len(pred_all[b]))])
        \* twice the pelvis-centred coordinate
        gtc(b, j, c) == 2 * gt[b][j][c] - (gt[b][3][c] + gt[b][4][c])
        prc(b, j, c) == 2 * pred[b][j][c] - (pred[b][3][c] + pred[b][4][c])
        sq   == [i \in 1..n |->
                    Sum([j \in 1..J |->
                        gt[sel[i]][j][4] *
                        (Sq(prc(sel[i], j, 1) - gtc(sel[i], j, 1)) +
                         Sq(prc(sel[i], j, 2) - gtc(sel[i], j, 2)) +
                         Sq(prc(sel[i], j, 3) - gtc(sel[i], j, 3)))])]
    IN  IF HasValid(sel) THEN Mean(Sum(sq), n * J * 3, 4) ELSE ZeroLoss

(***************************************************************************)
(* shape_loss: L1 over the vertex coordinates of the selected examples.    *)
(***************************************************************************)
ShapeLoss(pred_vertices, gt_vertices, has_smpl) ==
    LET sel == Masked(has_smpl)
        n   == Len(sel)
        V   == Len(gt_vertices[1])
        ad  == [i \in 1..n |->
                    Sum([v \in 1..V |->
                        Abs(pred_vertices[sel[i]][v] - gt_vertices[sel[i]][v])])]
    IN  IF HasValid(sel) THEN Mean(Sum(ad), n * V, 1) ELSE ZeroLoss

(***************************************************************************)
(* smpl_losses.  A rotation matrix is its 9 entries in row order; an       *)
(* axis-angle vector is in units of pi and is <<0,0,0>> or a unit vector   *)
(* along one axis, where the Rodrigues formula gives R = 2 e e^T - I.      *)
(***************************************************************************)
Rodrigues(v) ==
    Vec([e \in 1..9 |->
        LET r  == ((e - 1) \div 3) + 1
            c  == ((e - 1) % 3) + 1
            id == IF r = c THEN 1 ELSE 0
        IN  IF v = <<0, 0, 0>> THEN id ELSE 2 * v[r] * v[c] - id])

\* batch_rodrigues(gt_pose.view(-1,3)).view(-1, 24, 3, 3)
BatchRodrigues(gt_pose) ==
    Vec([b \in 1..Len(gt_pose) |->
        Vec([j \in 1..Len(gt_pose[b]) |-> Rodrigues(gt_pose[b][j])])])

SmplLosses(pred_rotmat, pred_betas, gt_pose, gt_betas, has_smpl) ==
    LET sel    == Masked(has_smpl)
        n      == Len(sel)
        gt_rot == BatchRodrigues(gt_pose)
        J      == Len(gt_pose[1])
        NB     == Len(gt_betas[1])
        sqr    == [i \in 1..n |->
                    Sum([j \in 1..J |->
                        Sum([e \in 1..9 |->
                            Sq(pred_rotmat[sel[i]][j][e] - gt_rot[sel[i]][j][e])])])]
        sqb    == [i \in 1..n |->
                    Sum([c \in 1..NB |-> Sq(pred_betas[sel[i]][c] - gt_betas[sel[i]][c])])]
    IN  IF HasValid(sel)
        THEN [pose |-> Mean(Sum(sqr), n * J * 9, 1), betas |-> Mean(Sum(sqb), n * NB, 1)]
        ELSE [pose |-> ZeroLoss, betas |-> ZeroLoss]

(***************************************************************************)
(* Loss-function cases.  An example carries its data and its validity      *)
(* flag; a case is a batch x, and a batch y that is x with at most one     *)
(* example replaced by another one.                                        *)
(***************************************************************************)
AxisAngles == <<(<<0, 0, 0>>), (<<1, 0, 0>>), (<<0, 1, 0>>)>>

DataIds == 0..2

Flags == 0..2

Kp3dPred(t) ==
    Vec([k \in 1..(NumOpenpose + NumGtKp) |->
        IF k <= NumOpenpose THEN <<7, 7, 7>> ELSE <<t * (k - NumOpenpose), t, 0>>])

Kp3dGt(t) == Vec([j \in 1..NumGtKp |-> <<j % 2, t, 0, (j + t) % 2>>])

VertPred(t) == Vec([i \in 1..NumVertCoords |-> t * i])

VertGt(t) == Vec([i \in 1..NumVertCoords |-> 2 - t])

RotPred(t) == Vec([j \in 1..NumSmplJoints |-> Rodrigues(AxisAngles[t + 1])])

BetasPred(t) == Vec([i \in 1..NumBetas |-> t])

PoseGt(t) == Vec([j \in 1..NumSmplJoints |-> AxisAngles[((t + j) % 3) + 1]])

BetasGt(t) == Vec([i \in 1..NumBetas |-> 1])

Examples == [data : DataIds, flag : Flags]

\* x with example r replaced by alt (r = 0: nothing replaced)
Replaced(x, r, alt) == Vec([b \in 1..Len(x) |-> IF b = r THEN alt ELSE x[b]])

MaskedCases ==
    {[fn |-> f, x |-> x, y |-> Replaced(x, r, alt)] :
        f \in {"keypoint_3d_loss", "shape_loss", "smpl_losses"},
        x \in [1..LossBatch -> Examples],
        r \in 0..LossBatch,
        alt \in Examples}

\* keypoint_loss cases: one example; the keypoints at the ends of the two
\* index ranges vary, the others have confidence 1 and no error
KpProbes == {1, NumOpenpose, NumOpenpose + 1, NumOpenpose + NumGtKp}

KpGtChoices == {<<0, 0, 0>>, <<0, 0, 1>>, <<1, 0, 2>>}

KpPredChoices == {<<0, 0>>, <<1, 2>>}

KpWeights == {<<1, 1>>, <<2, 3>>, <<0, 2>>}

KpCases ==
    {[fn |-> "keypoint_loss",
      gt |-> <<Vec([k \in 1..(NumOpenpose + NumGtKp) |->
                    IF k \in KpProbes THEN g[k] ELSE <<1, 1, 1>>])>>,
      pred |-> <<Vec([k \in 1..(NumOpenpose + NumGtKp) |->
                    IF k \in KpProbes THEN p[k] ELSE <<1, 1>>])>>,
      openpose_weight |-> w[1], gt_weight |-> w[2]] :
        g \in [KpProbes -> KpGtChoices], p \in [KpProbes -> KpPredChoices], w \in KpWeights}

FlagsOf(x) == Vec([b \in 1..Len(x) |-> x[b].flag])

CallKeypoint3dLoss(x) ==
    Keypoint3dLoss(Vec([b \in 1..Len(x) |-> Kp3dPred(x[b].data)]),
                   Vec([b \in 1..Len(x) |-> Kp3dGt(x[b].data)]), FlagsOf(x))

CallShapeLoss(x) ==
    ShapeLoss(Vec([b \in 1..Len(x) |-> VertPred(x[b].data)]),
              Vec([b \in 1..Len(x) |-> VertGt(x[b].data)]), FlagsOf(x))

CallSmplLosses(x) ==
    SmplLosses(Vec([b \in 1..Len(x) |-> RotPred(x[b].data)]),
               Vec([b \in 1..Len(x) |-> BetasPred(x[b].data)]),
               Vec([b \in 1..Len(x) |-> PoseGt(x[b].data)]),
               Vec([b \in 1..Len(x) |-> BetasGt(x[b].data)]), FlagsOf(x))

(***************************************************************************)
(* Configuration.  The option values and the focal length are read from    *)
(* TrainOptions and constants, which set them outside train.py; the model  *)
(* fixes one value each (distinct loss weights, img_res / 2 = 1).          *)
(***************************************************************************)
Opt ==
    [img_res |-> 2, focal_length |-> 2,
     shape_loss_weight |-> 2, keypoint_loss_weight |-> 3,
     pose_loss_weight |-> 5, beta_loss_weight |-> 7,
     openpose_train_weight |-> 1, gt_train_weight |-> 2]

(***************************************************************************)
(* Stand-ins for the parts train.py calls but does not define: the         *)
(* regression network, the body model, the projection and the estimator.   *)
(* Each is a deterministic function of its arguments.                      *)
(***************************************************************************)
\* self.model(images) for one image: rotation matrices, betas, camera [s, tx, ty]
Net(w, img) ==
    [rotmat |-> Vec([j \in 1..NumSmplJoints |->
                        Rodrigues(AxisAngles[((w + img + j) % 3) + 1])]),
     betas  |-> Vec([i \in 1..NumBetas |-> (w + img) % 2]),
     camera |-> <<1 + ((w + img) % 2), img % 2, w % 2>>]

\* self.smpl(...) / self.smpl_eval(...) for one example, rotations given as matrices
SmplModel(betas, global_orient, body_pose) ==
    LET rot == <<global_orient>> \o body_pose
    IN  [joints   |-> Vec([k \in 1..(NumOpenpose + NumGtKp) |->
                            <<betas[1] + (k % 2), rot[1][1] * (k % 3), 1>>]),
         vertices |-> Vec([i \in 1..NumVertCoords |-> betas[1] * i + rot[Len(rot)][9]])]

\* tgm.rotation_matrix_to_angle_axis on the matrices Rodrigues produces
AngleAxis(R) == CHOOSE v \in {AxisAngles[i] : i \in 1..3} : Rodrigues(v) = R

\* perspective_projection with identity rotation and camera centre 0 (floored)
PerspectiveProjection(joints, t, focal_length) ==
    Vec([k \in 1..Len(joints) |->
        <<(focal_length * (joints[k][1] + t[1])) \div (joints[k][3] + t[3]),
          (focal_length * (joints[k][2] + t[2])) \div (joints[k][3] + t[3])>>])

\* ((torch.exp(-s * 10)) ** 2) of one example, as a small positive rational that
\* falls with s
ExpSq(s) == Rat(1, (1 + s) * (1 + s))

(***************************************************************************)
(* weakProjection_gpu, for one example.                                    *)
(***************************************************************************)
WeakProjection(skel3D, scale, trans2D) ==
    Vec([k \in 1..Len(skel3D) |->
        <<scale * skel3D[k][1] + trans2D[1], scale * skel3D[k][2] + trans2D[2]>>])

(***************************************************************************)
(* Tensors that leave a step carry their value, whether they are attached  *)
(* to the autograd graph, and the storage they live in.                    *)
(***************************************************************************)
Tensor(val, requires_grad, buf) == [val |-> val, requires_grad |-> requires_grad, buf |-> buf]

Detach(t) == [t EXCEPT !.requires_grad = FALSE]

Clone(t) == [t EXCEPT !.buf = "clone_of_" \o t.buf]

\* .byte() of a flag, and .bool() of a byte
Byte(x) == x % 256

Bool(x) == IF x # 0 THEN 1 ELSE 0

(***************************************************************************)
(* Batches.  An example of the data set is built from a data id and its    *)
(* two validity flags.                                                     *)
(***************************************************************************)
Kp2dGt(t) == Vec([k \in 1..(NumOpenpose + NumGtKp) |-> <<(t + k) % 2, t % 2, (k + t) % 3>>])

Example(t, fs, f3) ==
    [img |-> t, keypoints |-> Kp2dGt(t), pose |-> PoseGt(t), betas |-> BetasGt(t),
     pose_3d |-> Kp3dGt(t), has_smpl |-> fs, has_pose_3d |-> f3]

\* the batches fed to train_step and test_step: n examples that alternate between
\* an annotated and an unannotated one, starting with either
Batches(n) ==
    {Vec([b \in 1..n |-> Example((t + b) % 2, (t + b) % 2, (t + b) % 2)]) : t \in 0..1}

\* the outcome of estimate_translation: it raises, or returns a translation
EstOutcomes ==
    {[raised |-> TRUE, val |-> <<>>]} \cup
    {[raised |-> FALSE, val |-> <<5, 6, 7>>]}

(***************************************************************************)
(* The forward part shared by train_step and test_step.                    *)
(***************************************************************************)
PredCamT(camera) ==
    <<camera[2], camera[3], (2 * Opt.focal_length) \div (Opt.img_res * camera[1])>>

Forward(w, batch, use_wpp) ==
    LET B    == Len(batch)
        net  == Vec([b \in 1..B |-> Net(w, batch[b].img)])
        gt   == Vec([b \in 1..B |->
                    SmplModel(batch[b].betas, Rodrigues(batch[b].pose[1]),
                              Vec([j \in 1..(NumSmplJoints - 1) |->
                                      Rodrigues(batch[b].pose[j + 1])]))])
        pred == Vec([b \in 1..B |->
                    SmplModel(net[b].betas, net[b].rotmat[1],
                              Vec([j \in 1..(NumSmplJoints - 1) |-> net[b].rotmat[j + 1]]))])
        camt == Vec([b \in 1..B |->
                    IF use_wpp THEN <<0, 0, 0>> ELSE PredCamT(net[b].camera)])
        kp   == Vec([b \in 1..B |->
                    IF use_wpp
                    THEN WeakProjection(pred[b].joints, net[b].camera[1],
                                        <<net[b].camera[2], net[b].camera[3]>>)
                    ELSE PerspectiveProjection(pred[b].joints, camt[b], Opt.focal_length)])
        half == Opt.img_res \div 2
    IN  [pred_rotmat       |-> Vec([b \in 1..B |-> net[b].rotmat]),
         pred_betas        |-> Vec([b \in 1..B |-> net[b].betas]),
         pred_camera       |-> Vec([b \in 1..B |-> net[b].camera]),
         pred_vertices     |-> Vec([b \in 1..B |-> pred[b].vertices]),
         pred_joints       |-> Vec([b \in 1..B |-> pred[b].joints]),
         gt_vertices       |-> Vec([b \in 1..B |-> gt[b].vertices]),
         pred_cam_t        |-> Tensor(camt, ~use_wpp, "pred_cam_t"),
         pred_keypoints_2d |-> Vec([b \in 1..B |->
                                 Vec([k \in 1..Len(kp[b]) |->
                                    <<kp[b][k][1] \div half, kp[b][k][2] \div half>>])])]

\* ((torch.exp(-pred_camera[:,0]*10)) ** 2).mean()
CamReg(pred_camera) ==
    LET B == Len(pred_camera)
        RECURSIVE Acc(_)
        Acc(b) == IF b = 0 THEN Rat(0, 1) ELSE RAdd(Acc(b - 1), ExpSq(pred_camera[b][1]))
        tot == Acc(B)
    IN  Rat(tot.n, tot.d * B)

Field(batch, f) == Vec([b \in 1..Len(batch) |-> batch[b][f]])


(***************************************************************************)
(* The loss composer.                                                      *)
(***************************************************************************)
\* a total that leaves the per-vertex loss out
TrainTotalNoShape(loss_shape, loss_keypoints, loss_keypoints_3d, loss_regr_pose, loss_regr_betas, cam_reg) ==
    RScale(LossScale,
        RAdd(RAdd(RAdd(RAdd(RScale(Opt.keypoint_loss_weight, loss_keypoints),
                            RScale(Opt.keypoint_loss_weight, loss_keypoints_3d)),
                       RScale(Opt.pose_loss_weight, loss_regr_pose)),
                  RScale(Opt.beta_loss_weight, loss_regr_betas)),
             cam_reg))

\* train_step: `loss = ...` followed by `loss *= 60`
TrainTotal(loss_shape, loss_keypoints, loss_keypoints_3d, loss_regr_pose, loss_regr_betas, cam_reg) ==
    RScale(LossScale,
        RAdd(RAdd(RAdd(RAdd(RAdd(RScale(Opt.shape_loss_weight, loss_shape),
                                 RScale(Opt.keypoint_loss_weight, loss_keypoints)),
                            RScale(Opt.keypoint_loss_weight, loss_keypoints_3d)),
                       RScale(Opt.pose_loss_weight, loss_regr_pose)),
                  RScale(Opt.beta_loss_weight, loss_regr_betas)),
             cam_reg))

\* test_step: `loss = ...` followed by `loss *= 60`
TestTotal(loss_shape, loss_keypoints, loss_regr_pose, loss_regr_betas, cam_reg) ==
    RScale(LossScale,
        RAdd(RAdd(RAdd(RAdd(RScale(Opt.shape_loss_weight, loss_shape),
                            RScale(Opt.keypoint_loss_weight, loss_keypoints)),
                       RScale(Opt.pose_loss_weight, loss_regr_pose)),
                  RScale(Opt.beta_loss_weight, loss_regr_betas)),
             cam_reg))

\* the losses dict of train_step, from the tensors of the forward part
TrainLosses(f, batch) ==
    LET valid_fit   == Vec([b \in 1..Len(batch) |-> Bool(Byte(batch[b].has_smpl))])
        has_pose_3d == Vec([b \in 1..Len(batch) |-> Byte(batch[b].has_pose_3d)])
        regr == SmplLosses(f.pred_rotmat, f.pred_betas,
                           Field(batch, "pose"), Field(batch, "betas"), valid_fit)
        kp   == KeypointLoss(f.pred_keypoints_2d, Field(batch, "keypoints"),
                             Opt.openpose_train_weight, Opt.gt_train_weight).loss
        kp3d == Keypoint3dLoss(f.pred_joints, Field(batch, "pose_3d"), has_pose_3d)
        sh   == ShapeLoss(f.pred_vertices, f.gt_vertices, valid_fit)
    IN  [loss              |-> TrainTotal(sh, kp, kp3d, regr.pose, regr.betas,
                                          CamReg(f.pred_camera)),
         loss_keypoints    |-> kp,
         loss_keypoints_3d |-> kp3d,
         loss_regr_pose    |-> regr.pose,
         loss_regr_betas   |-> regr.betas,
         loss_shape        |-> sh]

\* the losses dict of test_step
TestLosses(f, batch) ==
    LET valid_fit == Vec([b \in 1..Len(batch) |-> Byte(batch[b].has_smpl)])
        regr == SmplLosses(f.pred_rotmat, f.pred_betas,
                           Field(batch, "pose"), Field(batch, "betas"), valid_fit)
        kp   == KeypointLoss(f.pred_keypoints_2d, Field(batch, "keypoints"),
                             Opt.openpose_train_weight, Opt.gt_train_weight).loss
        sh   == ShapeLoss(f.pred_vertices, f.gt_vertices, valid_fit)
    IN  [loss_test            |-> TestTotal(sh, kp, regr.pose, regr.betas,
                                            CamReg(f.pred_camera)),
         loss_keypoints_test  |-> kp,
         loss_regr_pose_test  |-> regr.pose,
         loss_regr_betas_test |-> regr.betas,
         loss_shape_test      |-> sh]

(***************************************************************************)
(* Camera translation: the try/except around estimate_translation and the  *)
(* fallback.                                                               *)
(***************************************************************************)
None == [none |-> TRUE]

\* a try block without its except clause: the exception leaves the step
TryEstimateUncaught(est, B) ==
    IF est.raised THEN [exc |-> TRUE, val |-> None]
    ELSE [exc |-> FALSE, val |-> Tensor(Vec([b \in 1..B |-> est.val]), FALSE, "gt_cam_t")]

\* try: gt_cam_t = estimate_translation(...)  except: gt_cam_t = None
TryEstimate(est, B) ==
    IF est.raised THEN [exc |-> FALSE, val |-> None]
    ELSE [exc |-> FALSE, val |-> Tensor(Vec([b \in 1..B |-> est.val]), FALSE, "gt_cam_t")]

\* if gt_cam_t is None: gt_cam_t = pred_cam_t.clone().detach()
OptCamT(gt_cam_t, pred_cam_t) ==
    IF gt_cam_t = None THEN Detach(Clone(pred_cam_t)) ELSE gt_cam_t

(***************************************************************************)
(* Autograd and the optimizer, on m = [weights, grad, opt_step, calls];    *)
(* calls lists the protocol calls of the running step.                     *)
(***************************************************************************)
Sgn(x) == IF x > 0 THEN 1 ELSE IF x < 0 THEN -1 ELSE 0

\* the gradient loss.backward() adds to .grad, determined by the loss
Gradient(loss) == (loss.n % 3) - 1

ZeroGrad(m) == [m EXCEPT !.grad = 0, !.calls = Append(@, "zero_grad")]

Backward(m, loss) == [m EXCEPT !.grad = @ + Gradient(loss), !.calls = Append(@, "backward")]

OptimizerStep(m) ==
    [m EXCEPT !.weights = @ - Sgn(m.grad), !.opt_step = @ + 1, !.calls = Append(@, "step")]

\* backward before zero_grad: the fresh gradient is wiped before the update
BackpropWrongOrder(m, loss) == OptimizerStep(ZeroGrad(Backward(m, loss)))

\* self.optimizer.zero_grad(); loss.backward(); self.optimizer.step()
Backprop(m, loss) == OptimizerStep(Backward(ZeroGrad(m), loss))

\* a call that leaves the mode as it is
ModelTrainSkipped(md) == md

\* self.model.train() and self.model.eval()
ModelTrain(md) == "train"

\* a call that leaves the mode as it is
ModelEvalSkipped(md) == md

ModelEval(md) == "eval"

\* a forward pass moves the running statistics only in training mode
BuffersAfterForward(md, b) == IF md = "train" THEN b + 1 ELSE b

(***************************************************************************)
(* Trainer state after construction.                                       *)
(***************************************************************************)
NoEval == [step |-> 0]

TrainerInit ==
    /\ mode = "train"
    /\ weights = 0
    /\ grad = 0
    /\ opt_step = 0
    /\ buffers = 0
    /\ \E old \in BOOLEAN :
        /\ eval_result = IF old THEN <<"earlier line">> ELSE <<>>
        /\ submission = IF old THEN <<"earlier content">> ELSE <<>>
    /\ pc = "idle"
    /\ ev = NoEval
    /\ last = [op |-> "init"]

(***************************************************************************)
(* train_step.                                                             *)
(***************************************************************************)
TrainStep(batch, est) ==
    /\ pc = "idle"
    /\ opt_step < MaxTrainSteps
    /\ Len(batch) = options.batch_size
    /\ \E md \in {ModelTrain(mode)},
          gt_cam_t \in {TryEstimate(est, Len(batch))},
          f \in {Forward(weights, batch, options.use_wpp)} :
       \E losses \in {TrainLosses(f, batch)} :
       \E m \in {Backprop([weights |-> weights, grad |-> grad,
                            opt_step |-> opt_step, calls |-> <<>>], losses.loss)} :
           /\ mode' = md
           /\ IF gt_cam_t.exc
              THEN /\ last' = [op |-> "train_step", completed |-> FALSE,
                               batch |-> batch, est |-> est]
                   /\ UNCHANGED <<weights, grad, opt_step, buffers>>
              ELSE /\ buffers' = BuffersAfterForward(md, buffers)
                   /\ weights' = m.weights
                   /\ grad' = m.grad
                   /\ opt_step' = m.opt_step
                   /\ last' = [op |-> "train_step", completed |-> TRUE,
                               batch |-> batch, est |-> est,
                               weights_before |-> weights,
                               fwd_mode |-> md,
                               calls |-> m.calls,
                               pred_camera |-> f.pred_camera,
                               output |-> [pred_vertices |-> f.pred_vertices,
                                           opt_vertices  |-> f.gt_vertices,
                                           pred_cam_t    |-> Detach(f.pred_cam_t),
                                           opt_cam_t     |-> OptCamT(gt_cam_t.val, f.pred_cam_t)],
                               losses |-> losses]
    /\ UNCHANGED <<options, test_ds, eval_result, submission, pc, ev, lossIn, lossOut>>

(***************************************************************************)
(* test_step.                                                              *)
(***************************************************************************)
TestStep(batch) ==
    /\ pc = "idle"
    /\ Len(batch) = options.batch_size
    /\ \E md \in {ModelEval(mode)}, f \in {Forward(weights, batch, options.use_wpp)} :
           /\ mode' = md
           /\ buffers' = BuffersAfterForward(md, buffers)
           /\ last' = [op |-> "test_step", completed |-> TRUE, batch |-> batch,
                       weights_before |-> weights,
                       fwd_mode |-> md,
                       pred_camera |-> f.pred_camera,
                       losses |-> TestLosses(f, batch)]
    /\ UNCHANGED <<options, test_ds, weights, grad, opt_step,
                   eval_result, submission, pc, ev, lossIn, lossOut>>

(***************************************************************************)
(* The test set.  A sample's image path is kept as the list of its         *)
(* '/'-separated components, which is what split('/') returns.             *)
(***************************************************************************)
Sample(img, path) == [img |-> img, imgname |-> path, pose |-> PoseGt(img), betas |-> BetasGt(img)]

\* the samples at t2 and under depth share recording and frame name with the first
DistinctFirst ==
    <<Sample(0, <<"data", "recA", "t1", "PV", "f1.jpg">>),
      Sample(1, <<"root", "data", "recA", "t1", "PV", "f2.jpg">>),
      Sample(2, <<"data", "recB", "t1", "PV", "f1.jpg">>),
      Sample(1, <<"data", "recA", "t2", "PV", "f1.jpg">>),
      Sample(2, <<"data", "recA", "t1", "depth", "f1.jpg">>)>>

SharedFirst ==
    <<Sample(0, <<"data", "recA", "t1", "PV", "f1.jpg">>),
      Sample(1, <<"data", "recA", "t2", "PV", "f1.jpg">>),
      Sample(1, <<"root", "data", "recA", "t1", "PV", "f2.jpg">>),
      Sample(2, <<"data", "recB", "t1", "PV", "f1.jpg">>),
      Sample(2, <<"data", "recA", "t1", "depth", "f1.jpg">>)>>

TestSets == {SubSeq(o, 1, n) : o \in {DistinctFirst, SharedFirst}, n \in 0..MaxTestLen}

Min(a, b) == IF a < b THEN a ELSE b

Max(a, b) == IF a > b THEN a ELSE b

\* len(data_loader) and the step-th batch of DataLoader(ds, batch_size, shuffle=False)
NumBatches(ds, batch_size) == (Len(ds) + batch_size - 1) \div batch_size

LoaderBatch(ds, batch_size, step) ==
    SubSeq(ds, step * batch_size + 1, Min((step + 1) * batch_size, Len(ds)))

\* path.split('/')[-i]
FromEnd(parts, i) == parts[Len(parts) + 1 - i]

(***************************************************************************)
(* The metric arrays and numpy slice assignment arr[lo:hi] = vals          *)
(* (0-based lo, exclusive hi, both clipped to the array).                  *)
(***************************************************************************)
Zeros(n) == Vec([i \in 1..n |-> 0])

SliceAssign(arr, lo, hi, vals) ==
    LET a == Min(lo, Len(arr))
        b == Max(a, Min(hi, Len(arr)))
    IN  IF Len(vals) = b - a
        THEN [ok |-> TRUE,
              arr |-> Vec([i \in 1..Len(arr) |->
                            IF a < i /\ i <= b THEN vals[i - a] ELSE arr[i]])]
        ELSE IF Len(vals) = 1
        THEN [ok |-> TRUE,
              arr |-> Vec([i \in 1..Len(arr) |->
                            IF a < i /\ i <= b THEN vals[1] ELSE arr[i]])]
        ELSE [ok |-> FALSE, arr |-> arr]

\* how often each index has been assigned
SliceCount(cnt, lo, hi) ==
    LET a == Min(lo, Len(cnt))
        b == Max(a, Min(hi, Len(cnt)))
    IN  Vec([i \in 1..Len(cnt) |-> IF a < i /\ i <= b THEN cnt[i] + 1 ELSE cnt[i]])

\* a slice that starts at step * curr_batch_size
SliceStartCurr(step, batch_size, curr_batch_size) == step * curr_batch_size

\* step*batch_size
SliceStart(step, batch_size, curr_batch_size) == step * batch_size

\* arr.mean()
MeanArr(arr) == Rat(Sum(arr), Len(arr))

(***************************************************************************)
(* Per-sample errors.  Distances are taken in the L1 norm and summed over  *)
(* the points; the Procrustes-aligned error is a fixed fraction of it.     *)
(***************************************************************************)
JointError(pred, gt) ==
    Sum([j \in 1..Len(gt) |->
            Abs(pred[j][1] - gt[j][1]) + Abs(pred[j][2] - gt[j][2]) + Abs(pred[j][3] - gt[j][3])])

VertexError(pred, gt) == Sum([i \in 1..Len(gt) |-> Abs(pred[i] - gt[i])])

ReconstructionError(err) == err \div 2

(***************************************************************************)
(* pred_dict: a dict keeps its keys in insertion order, and json.dumps     *)
(* writes them in that order; a dict is the list of its <<key, value>>.    *)
(***************************************************************************)
HasKey(d, k) == \E i \in 1..Len(d) : d[i][1] = k

Get(d, k) == d[CHOOSE i \in 1..Len(d) : d[i][1] = k][2]

\* an assignment that leaves an existing key alone
PutKeepFirst(d, k, v) == IF HasKey(d, k) THEN d ELSE Append(d, <<k, v>>)

Put(d, k, v) ==
    IF HasKey(d, k)
    THEN Vec([i \in 1..Len(d) |-> IF d[i][1] = k THEN <<k, v>> ELSE d[i]])
    ELSE Append(d, <<k, v>>)

\* pred_dict[recording_name][frame_name] = entry
PutEntry(d, recording_name, frame_name, entry) ==
    LET inner == IF HasKey(d, recording_name) THEN Get(d, recording_name) ELSE <<>>
    IN  Put(d, recording_name, Put(inner, frame_name, entry))

JsonDumps(d) == [format |-> "json", object |-> d]

RECURSIVE Flatten(_)
Flatten(ss) == IF ss = <<>> THEN <<>> ELSE Head(ss) \o Flatten(Tail(ss))

\* the entry eval stores for one sample, from the network's output for it
Prediction(net) ==
    LET pred_pose == Flatten(Vec([j \in 1..Len(net.rotmat) |-> AngleAxis(net.rotmat[j])]))
    IN  [gender        |-> "neutral",
         body_pose     |-> <<SubSeq(pred_pose, 4, Len(pred_pose))>>,
         global_orient |-> <<SubSeq(pred_pose, 1, 3)>>,
         betas         |-> <<net.betas>>]

RECURSIVE StoreBatch(_, _, _, _)
\* for i in range(curr_batch_size): ... (samples i..curr of the batch)
StoreBatch(d, batch, nets, i) ==
    IF i > Len(batch) THEN d
    ELSE StoreBatch(PutEntry(d, FromEnd(batch[i].imgname, 4), FromEnd(batch[i].imgname, 1),
                             Prediction(nets[i])),
                    batch, nets, i + 1)

(***************************************************************************)
(* eval: its head, one action per batch of the loader, and its tail.       *)
(***************************************************************************)
EvalsDone == Len(eval_result) \div 6

EvalBegin ==
    /\ pc = "idle"
    /\ EvalsDone < MaxEvals
    /\ mode' = ModelEval(mode)
    /\ pc' = "eval"
    /\ ev' = [step |-> 0,
              mpjpe |-> Zeros(Len(test_ds)), pa_mpjpe |-> Zeros(Len(test_ds)),
              v2v |-> Zeros(Len(test_ds)), pa_v2v |-> Zeros(Len(test_ds)),
              written |-> Zeros(Len(test_ds)),
              pred_dict |-> <<>>]
    /\ last' = [op |-> "eval", completed |-> FALSE]
    /\ UNCHANGED <<options, test_ds, weights, grad, opt_step, buffers,
                   eval_result, submission, lossIn, lossOut>>

EvalBatch ==
    /\ pc = "eval"
    /\ ev.step < NumBatches(test_ds, options.batch_size)
    /\ LET batch == LoaderBatch(test_ds, options.batch_size, ev.step)
           curr  == Len(batch)
           nets  == Vec([i \in 1..curr |-> Net(weights, batch[i].img)])
           gt    == Vec([i \in 1..curr |->
                        SmplModel(batch[i].betas, Rodrigues(batch[i].pose[1]),
                                  Vec([j \in 1..(NumSmplJoints - 1) |->
                                          Rodrigues(batch[i].pose[j + 1])]))])
           pred  == Vec([i \in 1..curr |->
                        SmplModel(nets[i].betas, nets[i].rotmat[1],
                                  Vec([j \in 1..(NumSmplJoints - 1) |->
                                          nets[i].rotmat[j + 1]]))])
           je    == Vec([i \in 1..curr |->
                        JointError(SubSeq(pred[i].joints, 1, NumSmplJoints),
                                   SubSeq(gt[i].joints, 1, NumSmplJoints))])
           ve    == Vec([i \in 1..curr |-> VertexError(pred[i].vertices, gt[i].vertices)])
           lo    == SliceStart(ev.step, options.batch_size, curr)
           hi    == lo + curr
           a1    == SliceAssign(ev.mpjpe, lo, hi, je)
           a2    == SliceAssign(ev.pa_mpjpe, lo, hi,
                                Vec([i \in 1..curr |-> ReconstructionError(je[i])]))
           a3    == SliceAssign(ev.v2v, lo, hi, ve)
           a4    == SliceAssign(ev.pa_v2v, lo, hi,
                                Vec([i \in 1..curr |-> ReconstructionError(ve[i])]))
       IN  /\ buffers' = BuffersAfterForward(mode, buffers)
           /\ IF a1.ok /\ a2.ok /\ a3.ok /\ a4.ok
              THEN /\ ev' = [step |-> ev.step + 1,
                             mpjpe |-> a1.arr, pa_mpjpe |-> a2.arr,
                             v2v |-> a3.arr, pa_v2v |-> a4.arr,
                             written |-> SliceCount(ev.written, lo, hi),
                             pred_dict |-> StoreBatch(ev.pred_dict, batch, nets, 1)]
                   /\ UNCHANGED <<pc, last>>
              ELSE \* the assignment raises: eval is left without writing its files
                   /\ ev' = NoEval
                   /\ pc' = "idle"
                   /\ last' = [op |-> "eval", completed |-> FALSE, raised |-> TRUE]
    /\ UNCHANGED <<options, test_ds, mode, weights, grad, opt_step,
                   eval_result, submission, lossIn, lossOut>>

SubmissionPath == "submission_path"

\* the block eval appends to the log
ResultBlock(e) ==
    <<SubmissionPath,
      <<"MPJPE: ", RScale(1000, MeanArr(e.mpjpe))>>,
      <<"PA-MPJPE: ", RScale(1000, MeanArr(e.pa_mpjpe))>>,
      <<"V2V: ", RScale(1000, MeanArr(e.v2v))>>,
      <<"PA-V2V: ", RScale(1000, MeanArr(e.pa_v2v))>>,
      "">>

\* a log opened with 'w': the block replaces the file
AppendLogTruncating(file, block) == block

\* open(self.eval_result_path, 'a+') and the six writelines
AppendLog(file, block) == file \o block

\* open(self.submission_path, 'w+') and f.write(pred_json)
WriteSubmission(file, text) == <<text>>

EvalEnd ==
    /\ pc = "eval"
    /\ ev.step = NumBatches(test_ds, options.batch_size)
    /\ eval_result' = AppendLog(eval_result, ResultBlock(ev))
    /\ submission' = WriteSubmission(submission, JsonDumps(ev.pred_dict))
    /\ pc' = "idle"
    /\ ev' = NoEval
    /\ last' = [op |-> "eval", completed |-> TRUE,
                weights_before |-> weights,
                log_before |-> eval_result,
                mpjpe |-> ev.mpjpe, pa_mpjpe |-> ev.pa_mpjpe,
                v2v |-> ev.v2v, pa_v2v |-> ev.pa_v2v,
                written |-> ev.written,
                pred_dict |-> ev.pred_dict]
    /\ UNCHANGED <<options, test_ds, mode, weights, grad, opt_step, buffers,
                   lossIn, lossOut>>

(***************************************************************************)
(* The trainer driven by its single host loop.                             *)
(***************************************************************************)
\* one test set, with the files of an earlier run in place
Init ==
    /\ TrainerInit
    /\ eval_result # <<>>
    /\ options \in [batch_size : 1..MaxBatch, use_wpp : BOOLEAN]
    /\ test_ds = SubSeq(SharedFirst, 1, MaxTestLen)
    /\ lossIn = [fn |-> "none"]
    /\ lossOut = <<>>

Next ==
    \/ \E batch \in Batches(options.batch_size), est \in EstOutcomes : TrainStep(batch, est)
    \/ \E batch \in Batches(options.batch_size) : TestStep(batch)
    \/ EvalBegin
    \/ EvalBatch
    \/ EvalEnd

Spec == Init /\ [][Next]_vars

(***************************************************************************)
(* eval alone, over every test set and batch size.                         *)
(***************************************************************************)
EvalInit ==
    /\ TrainerInit
    /\ options \in [batch_size : 1..MaxBatch, use_wpp : {FALSE}]
    /\ test_ds \in TestSets
    /\ lossIn = [fn |-> "none"]
    /\ lossOut = <<>>

EvalNext ==
    \/ EvalBegin
    \/ EvalBatch
    \/ EvalEnd

SpecEval == EvalInit /\ [][EvalNext]_vars

LossInit ==
    /\ lossIn \in MaskedCases \cup KpCases
    /\ lossOut = <<>>
    /\ TrainerInit
    /\ eval_result = <<>>
    /\ options = [batch_size |-> 1, use_wpp |-> FALSE]
    /\ test_ds = <<>>

ApplyKeypointLoss ==
    /\ lossIn.fn = "keypoint_loss" /\ lossOut = <<>>
    /\ lossOut' = <<KeypointLoss(lossIn.pred, lossIn.gt,
                                 lossIn.openpose_weight, lossIn.gt_weight)>>
    /\ UNCHANGED <<lossIn, trainer>>

ApplyKeypoint3dLoss ==
    /\ lossIn.fn = "keypoint_3d_loss" /\ lossOut = <<>>
    /\ lossOut' = <<[x |-> CallKeypoint3dLoss(lossIn.x), y |-> CallKeypoint3dLoss(lossIn.y)]>>
    /\ UNCHANGED <<lossIn, trainer>>

ApplyShapeLoss ==
    /\ lossIn.fn = "shape_loss" /\ lossOut = <<>>
    /\ lossOut' = <<[x |-> CallShapeLoss(lossIn.x), y |-> CallShapeLoss(lossIn.y)]>>
    /\ UNCHANGED <<lossIn, trainer>>

ApplySmplLosses ==
    /\ lossIn.fn = "smpl_losses" /\ lossOut = <<>>
    /\ lossOut' = <<[x |-> CallSmplLosses(lossIn.x), y |-> CallSmplLosses(lossIn.y)]>>
    /\ UNCHANGED <<lossIn, trainer>>

LossNext ==
    \/ ApplyKeypointLoss
    \/ ApplyKeypoint3dLoss
    \/ ApplyShapeLoss
    \/ ApplySmplLosses

SpecLoss == LossInit /\ [][LossNext]_vars

(***************************************************************************)
(* Properties of the trainer (checked under Spec).                         *)
(***************************************************************************)
TrainReturned == last.op = "train_step" /\ last.completed

\* C1: a train_step whose estimate_translation raises still returns, and its
\* opt_cam_t is a new, detached tensor with the values of that step's pred_cam_t;
\* when the estimate succeeds opt_cam_t is the estimate itself.
C1_CamTranslationFallback ==
    last.op = "train_step" =>
        /\ last.completed
        /\ last.est.raised =>
            /\ last.output.opt_cam_t.val = last.output.pred_cam_t.val
            /\ ~last.output.opt_cam_t.requires_grad
            /\ last.output.opt_cam_t.buf # last.output.pred_cam_t.buf
        /\ ~last.est.raised =>
            last.output.opt_cam_t =
                Tensor(Vec([b \in 1..Len(last.batch) |-> last.est.val]), FALSE, "gt_cam_t")

C1_Witness ==
    /\ TrainReturned
    /\ last.est.raised
    /\ ~options.use_wpp
    /\ last.output.opt_cam_t.val = last.output.pred_cam_t.val
    /\ last.output.pred_cam_t.val[1] # <<0, 0, 0>>

\* the weighted sum of the loss kinds a step reports, with the camera penalty, * 60
WeightedTotal(shape, kp, kp3d, pose, betas, pred_camera) ==
    RScale(60,
        RAdd(RScale(Opt.shape_loss_weight, shape),
        RAdd(RScale(Opt.keypoint_loss_weight, kp),
        RAdd(RScale(Opt.keypoint_loss_weight, kp3d),
        RAdd(RScale(Opt.pose_loss_weight, pose),
        RAdd(RScale(Opt.beta_loss_weight, betas), CamReg(pred_camera)))))))

\* the 3D joint loss of the batch of the last step, as train_step computes it
LastKp3d ==
    Keypoint3dLoss(Forward(last.weights_before, last.batch, options.use_wpp).pred_joints,
                   Field(last.batch, "pose_3d"),
                   Vec([b \in 1..Len(last.batch) |-> Byte(last.batch[b].has_pose_3d)]))

C3_TrainTotal ==
    TrainReturned =>
        last.losses.loss =
            WeightedTotal(last.losses.loss_shape, last.losses.loss_keypoints,
                          last.losses.loss_keypoints_3d, last.losses.loss_regr_pose,
                          last.losses.loss_regr_betas, last.pred_camera)

\* C3 as claimed: the total of test_step, like that of train_step, combines the 2D
\* keypoint, 3D joint, per-vertex and SMPL parameter losses, each with its weight.
C3_AllFourKindsInBothSteps ==
    /\ C3_TrainTotal
    /\ last.op = "test_step" =>
        last.losses.loss_test =
            WeightedTotal(last.losses.loss_shape_test, last.losses.loss_keypoints_test,
                          LastKp3d, last.losses.loss_regr_pose_test,
                          last.losses.loss_regr_betas_test, last.pred_camera)

\* C3, amended: the total of train_step combines all four kinds of loss, each with
\* its weight; the total of test_step combines the 2D keypoint, per-vertex and SMPL
\* parameter losses with their weights and has no 3D joint loss.
C3_TotalLossTerms ==
    /\ C3_TrainTotal
    /\ last.op = "test_step" =>
        last.losses.loss_test =
            WeightedTotal(last.losses.loss_shape_test, last.losses.loss_keypoints_test,
                          ZeroLoss, last.losses.loss_regr_pose_test,
                          last.losses.loss_regr_betas_test, last.pred_camera)

C3_Witness ==
    /\ last.op = "test_step"
    /\ LastKp3d # ZeroLoss
    /\ last.losses.loss_shape_test # ZeroLoss
    /\ last.losses.loss_keypoints_test # ZeroLoss
    /\ last.losses.loss_regr_pose_test # ZeroLoss

\* C6: a train_step calls zero_grad, backward and step once each, in that order,
\* after the losses are computed: its gradient buffers hold the gradient of its own
\* loss alone, the weights moved by that gradient, and the losses it returns are
\* those of the weights it started with.
C6_OptimizerProtocol ==
    TrainReturned =>
        /\ last.calls = <<"zero_grad", "backward", "step">>
        /\ grad = Gradient(last.losses.loss)
        /\ weights = last.weights_before - Sgn(Gradient(last.losses.loss))
        /\ last.losses =
            TrainLosses(Forward(last.weights_before, last.batch, options.use_wpp), last.batch)

C6_Witness ==
    /\ TrainReturned
    /\ opt_step = 2
    /\ weights # last.weights_before
    /\ last.weights_before # 0
    /\ last.calls = <<"zero_grad", "backward", "step">>

\* C10: a step of test_step or eval leaves the weights, the running statistics, the
\* gradient buffers and the optimizer state as they were; a train_step that returns
\* has advanced the optimizer by exactly one step.
C10_OnlyTrainStepUpdates ==
    [][/\ last'.op \in {"test_step", "eval"} =>
            /\ weights' = weights
            /\ buffers' = buffers
            /\ grad' = grad
            /\ opt_step' = opt_step
       /\ (last'.op = "train_step" /\ last'.completed) =>
            /\ opt_step' = opt_step + 1
            /\ Len(SelectSeq(last'.calls, LAMBDA c : c = "step")) = 1]_vars

C10_Witness ==
    /\ last.op = "test_step"
    /\ opt_step >= 1
    /\ weights # 0
    /\ buffers = opt_step
    /\ EvalsDone >= 1

\* C5: every step leaves the log as it is or appends one block of six lines to it
\* (submission path, MPJPE, PA-MPJPE, V2V, PA-V2V, empty line), and this happens
\* exactly when an eval call returns; the submission file then holds the dumped
\* predictions of that call and nothing else.
C5_LogAppendsSubmissionOverwritten ==
    [][IF pc = "eval" /\ pc' = "idle" /\ last'.completed
       THEN /\ Len(eval_result') = Len(eval_result) + 6
            /\ SubSeq(eval_result', 1, Len(eval_result)) = eval_result
            /\ LET block == SubSeq(eval_result', Len(eval_result) + 1, Len(eval_result'))
               IN  /\ block[1] = SubmissionPath
                   /\ block[2] = <<"MPJPE: ", RScale(1000, MeanArr(last'.mpjpe))>>
                   /\ block[3] = <<"PA-MPJPE: ", RScale(1000, MeanArr(last'.pa_mpjpe))>>
                   /\ block[4] = <<"V2V: ", RScale(1000, MeanArr(last'.v2v))>>
                   /\ block[5] = <<"PA-V2V: ", RScale(1000, MeanArr(last'.pa_v2v))>>
                   /\ block[6] = ""
            /\ submission' = <<JsonDumps(last'.pred_dict)>>
       ELSE /\ eval_result' = eval_result
            /\ submission' = submission]_vars

C5_Witness ==
    /\ last.op = "eval" /\ last.completed
    /\ EvalsDone = 2
    /\ Len(eval_result) = 13
    /\ eval_result[1] = "earlier line"
    /\ weights # 0
    /\ submission = <<JsonDumps(last.pred_dict)>>

\* what train_step returns and leaves behind when it is called with weights w,
\* gradient buffers g and optimizer step count n, and the estimate ends as est
TrainOutcome(w, g, n, batch, est) ==
    LET gt_cam_t == TryEstimate(est, Len(batch))
        f        == Forward(w, batch, options.use_wpp)
        losses   == TrainLosses(f, batch)
        m        == Backprop([weights |-> w, grad |-> g, opt_step |-> n, calls |-> <<>>],
                             losses.loss)
    IN  IF gt_cam_t.exc
        THEN [completed |-> FALSE]
        ELSE [completed |-> TRUE, losses |-> losses,
              weights |-> m.weights, grad |-> m.grad, opt_step |-> m.opt_step,
              pred_vertices |-> f.pred_vertices, opt_vertices |-> f.gt_vertices,
              pred_cam_t |-> Detach(f.pred_cam_t),
              opt_cam_t |-> OptCamT(gt_cam_t.val, f.pred_cam_t)]

\* C11: whatever a train_step does, the same call with the estimate of the camera
\* translation ending in any other way (raising, or returning a value) returns too,
\* with the same total loss and the same individual losses, leaves the same
\* weights, gradient buffers and optimizer step count, and returns the same output
\* apart from opt_cam_t.
C11_EstimateDoesNotInfluenceTraining ==
    [][last'.op = "train_step" =>
        \A est2 \in EstOutcomes \ {last'.est} :
            \A alt \in {TrainOutcome(weights, grad, opt_step, last'.batch, est2)} :
                /\ last'.completed
                /\ alt.completed
                /\ alt.losses = last'.losses
                /\ alt.weights = weights'
                /\ alt.grad = grad'
                /\ alt.opt_step = opt_step'
                /\ alt.pred_vertices = last'.output.pred_vertices
                /\ alt.opt_vertices = last'.output.opt_vertices
                /\ alt.pred_cam_t = last'.output.pred_cam_t]_vars

C11_Witness ==
    /\ TrainReturned
    /\ ~last.est.raised
    /\ weights # last.weights_before
    /\ last.losses.loss # ZeroLoss
    /\ \E est2 \in EstOutcomes :
        /\ est2.raised
        /\ TrainOutcome(last.weights_before, 0, opt_step - 1, last.batch, est2).opt_cam_t
               # last.output.opt_cam_t
        /\ TrainOutcome(last.weights_before, 0, opt_step - 1, last.batch, est2).losses
               = last.losses

\* C12: the forward pass of a train_step runs with the model in training mode, the
\* forward pass of a test_step runs with it in evaluation mode, and the model is in
\* evaluation mode for as long as an eval call is running its batches, whichever
\* operation ran before.
C12_ForwardModeMatchesOperation ==
    /\ TrainReturned => (last.fwd_mode = "train" /\ mode = "train")
    /\ last.op = "test_step" => (last.fwd_mode = "eval" /\ mode = "eval")
    /\ pc = "eval" => mode = "eval"

\* the first train_step of a trainer that has already run an eval
C12_Witness ==
    /\ TrainReturned
    /\ opt_step = 1
    /\ EvalsDone >= 1
    /\ last.fwd_mode = "train"
    /\ buffers = 1

(***************************************************************************)
(* Properties of eval (checked under SpecEval).                            *)
(***************************************************************************)
EvalReturned == last.op = "eval" /\ last.completed

RecordingName(i) == FromEnd(test_ds[i].imgname, 4)

FrameName(i) == FromEnd(test_ds[i].imgname, 1)

\* what the network predicts for sample i
OwnPrediction(i) == Prediction(Net(weights, test_ds[i].img))

\* the last sample of the test set filed under the names of sample i
LastNamedLike(i) ==
    CHOOSE j \in i..Len(test_ds) :
        /\ RecordingName(j) = RecordingName(i) /\ FrameName(j) = FrameName(i)
        /\ \A k \in (j + 1)..Len(test_ds) :
            ~(RecordingName(k) = RecordingName(i) /\ FrameName(k) = FrameName(i))

Written == submission[1].object

HasEntry(i) ==
    /\ HasKey(Written, RecordingName(i))
    /\ HasKey(Get(Written, RecordingName(i)), FrameName(i))

Entry(i) == Get(Get(Written, RecordingName(i)), FrameName(i))

\* C4 as claimed: after eval the written mapping holds, for every test sample, that
\* sample's own prediction under its recording and frame name.
C4_EverySampleOwnPrediction ==
    EvalReturned =>
        \A i \in 1..Len(test_ds) : HasEntry(i) /\ Entry(i) = OwnPrediction(i)

\* C4, amended: after eval the written mapping has an entry under the recording and
\* frame name of every test sample, and the entry holds the prediction of the last
\* sample of the test set with those two names (the sample's own prediction when no
\* later sample shares both names); it has no other entries.
C4_LastSampleWithNamesWins ==
    EvalReturned =>
        /\ submission = <<JsonDumps(last.pred_dict)>>
        /\ \A i \in 1..Len(test_ds) :
            HasEntry(i) /\ Entry(i) = OwnPrediction(LastNamedLike(i))
        /\ Sum(Vec([r \in 1..Len(Written) |-> Len(Written[r][2])])) =
            Cardinality({<<RecordingName(i), FrameName(i)>> : i \in 1..Len(test_ds)})

C4_Witness ==
    /\ EvalReturned
    /\ Len(test_ds) = 3
    /\ options.batch_size = 2
    /\ \E i \in 1..Len(test_ds) : LastNamedLike(i) # i /\ OwnPrediction(LastNamedLike(i)) # OwnPrediction(i)
    /\ \A i \in 1..Len(test_ds) : HasEntry(i) /\ Entry(i) = OwnPrediction(LastNamedLike(i))

\* the errors of sample i, as eval computes them for the example of a batch
SampleJointError(i) ==
    LET net  == Net(weights, test_ds[i].img)
        gt   == SmplModel(test_ds[i].betas, Rodrigues(test_ds[i].pose[1]),
                          Vec([j \in 1..(NumSmplJoints - 1) |->
                                  Rodrigues(test_ds[i].pose[j + 1])]))
        pred == SmplModel(net.betas, net.rotmat[1],
                          Vec([j \in 1..(NumSmplJoints - 1) |-> net.rotmat[j + 1]]))
    IN  JointError(SubSeq(pred.joints, 1, NumSmplJoints), SubSeq(gt.joints, 1, NumSmplJoints))

SampleVertexError(i) ==
    LET net  == Net(weights, test_ds[i].img)
        gt   == SmplModel(test_ds[i].betas, Rodrigues(test_ds[i].pose[1]),
                          Vec([j \in 1..(NumSmplJoints - 1) |->
                                  Rodrigues(test_ds[i].pose[j + 1])]))
        pred == SmplModel(net.betas, net.rotmat[1],
                          Vec([j \in 1..(NumSmplJoints - 1) |-> net.rotmat[j + 1]]))
    IN  VertexError(pred.vertices, gt.vertices)

\* the arrays a hold sample i's errors at index i
HoldsErrorsOf(a, i) ==
    /\ a.mpjpe[i] = SampleJointError(i)
    /\ a.pa_mpjpe[i] = ReconstructionError(SampleJointError(i))
    /\ a.v2v[i] = SampleVertexError(i)
    /\ a.pa_v2v[i] = ReconstructionError(SampleVertexError(i))

ArraysKeepLength(a) ==
    /\ Len(a.mpjpe) = Len(test_ds) /\ Len(a.pa_mpjpe) = Len(test_ds)
    /\ Len(a.v2v) = Len(test_ds) /\ Len(a.pa_v2v) = Len(test_ds)

\* C7: while eval runs, the indices of the batches done so far have been assigned
\* exactly once, with the errors of the sample at that index, and no other index
\* has been assigned; eval never stops on an assignment; when it returns every
\* index has been assigned exactly once and the logged values are 1000 times the
\* means over all test samples.
C7_MetricArraysFilledOnce ==
    /\ pc = "eval" =>
        /\ ArraysKeepLength(ev)
        /\ \A i \in 1..Len(test_ds) :
            IF i <= ev.step * options.batch_size
            THEN ev.written[i] = 1 /\ HoldsErrorsOf(ev, i)
            ELSE ev.written[i] = 0 /\ ev.mpjpe[i] = 0
    /\ (last.op = "eval" /\ pc = "idle") => last.completed
    /\ EvalReturned =>
        /\ ArraysKeepLength(last)
        /\ \A i \in 1..Len(test_ds) : last.written[i] = 1 /\ HoldsErrorsOf(last, i)
        /\ eval_result[Len(eval_result) - 4] =
            <<"MPJPE: ",
              Rat(1000 * Sum(Vec([i \in 1..Len(test_ds) |-> SampleJointError(i)])),
                  Len(test_ds))>>

C7_Witness ==
    /\ EvalReturned
    /\ Len(test_ds) = 3
    /\ options.batch_size = 2
    /\ \A i \in 1..Len(test_ds) : last.written[i] = 1 /\ HoldsErrorsOf(last, i)
    /\ \E i, j \in 1..Len(test_ds) : last.mpjpe[i] # 0 /\ last.mpjpe[i] # last.mpjpe[j]

(***************************************************************************)
(* Properties of the loss functions (checked under SpecLoss).              *)
(***************************************************************************)
MaskedFns == {"keypoint_3d_loss", "shape_loss", "smpl_losses"}

NoneValid(x) == \A b \in 1..Len(x) : x[b].flag # 1

LossIsZero(fn, v) ==
    IF fn = "smpl_losses" THEN v.pose = ZeroLoss /\ v.betas = ZeroLoss ELSE v = ZeroLoss

\* C2: when no example of the batch has its flag equal to 1, keypoint_3d_loss and
\* shape_loss return the value 0 and smpl_losses returns 0 for both the pose and
\* the betas loss (a number, never the NaN of an empty mean).
C2_ZeroLossWhenNoneValid ==
    (lossOut # <<>> /\ lossIn.fn \in MaskedFns /\ NoneValid(lossIn.x))
        => LossIsZero(lossIn.fn, lossOut[1].x)

C2_Witness ==
    /\ lossOut # <<>>
    /\ lossIn.fn = "smpl_losses"
    /\ NoneValid(lossIn.x)
    /\ \E b \in 1..Len(lossIn.x) : lossIn.x[b].flag = 2
    /\ LossIsZero(lossIn.fn, lossOut[1].x)

\* the two batches have the same examples wherever either flag is 1
AgreeOnValid(x, y) ==
    \A b \in 1..Len(x) : (x[b].flag = 1 \/ y[b].flag = 1) => x[b] = y[b]

\* C8: two batches that agree on every example whose flag is 1 get the same
\* value from each masked loss, whatever the other examples hold.
C8_MaskedLossIgnoresInvalid ==
    (lossOut # <<>> /\ lossIn.fn \in MaskedFns /\ AgreeOnValid(lossIn.x, lossIn.y))
        => lossOut[1].x = lossOut[1].y

C8_Witness ==
    /\ lossOut # <<>>
    /\ lossIn.fn = "keypoint_3d_loss"
    /\ AgreeOnValid(lossIn.x, lossIn.y)
    /\ \E b \in 1..Len(lossIn.x) : lossIn.x[b].data # lossIn.y[b].data
    /\ \E b \in 1..Len(lossIn.x) : lossIn.x[b].flag = 1
    /\ lossOut[1].x = lossOut[1].y
    /\ lossOut[1].x # ZeroLoss

\* the weight keypoint_loss is documented to give keypoint k (1-based)
KpWeight(k, openpose_weight, gt_weight) ==
    IF k <= NumOpenpose THEN openpose_weight ELSE gt_weight

\* squared error of keypoint k of the single example
KpSqErr(pred, gt, k) ==
    (pred[1][k][1] - gt[1][k][1]) * (pred[1][k][1] - gt[1][k][1]) +
    (pred[1][k][2] - gt[1][k][2]) * (pred[1][k][2] - gt[1][k][2])

\* C9: keypoint_loss is the mean over all coordinates of confidence * weight *
\* squared error, the weight being openpose_weight for the first 25 keypoints and
\* gt_weight for the others; keypoints of confidence 0 add nothing; the caller's
\* gt_keypoints_2d tensor is the same after the call as before.
C9_KeypointLossWeighting ==
    (lossOut # <<>> /\ lossIn.fn = "keypoint_loss") =>
        LET K    == Len(lossIn.gt[1])
            term == [k \in 1..K |->
                        IF lossIn.gt[1][k][3] = 0 THEN 0
                        ELSE KpWeight(k, lossIn.openpose_weight, lossIn.gt_weight) *
                             lossIn.gt[1][k][3] * KpSqErr(lossIn.pred, lossIn.gt, k)]
        IN  /\ lossOut[1].loss = Rat(Sum(term), K * 2)
            /\ lossOut[1].gt = lossIn.gt

C9_Witness ==
    /\ lossOut # <<>>
    /\ lossIn.fn = "keypoint_loss"
    /\ lossIn.openpose_weight = 2 /\ lossIn.gt_weight = 3
    /\ lossIn.gt[1][NumOpenpose][3] = 2 /\ KpSqErr(lossIn.pred, lossIn.gt, NumOpenpose) # 0
    /\ lossIn.gt[1][NumOpenpose + 1][3] = 1
    /\ KpSqErr(lossIn.pred, lossIn.gt, NumOpenpose + 1) # 0
    /\ lossIn.gt[1][1][3] = 0 /\ KpSqErr(lossIn.pred, lossIn.gt, 1) # 0
    /\ lossOut[1].gt = lossIn.gt
    /\ lossOut[1].loss # ZeroLoss

====
